---- MODULE Spec2Model ----
(***************************************************************************)
(* Streaming loop, cancellation handle and pacing of nokhwa-node.         *)
(*                                                                         *)
(* Two implementations of create_camera_stream exist in the repository:    *)
(* src/src/nokhwa.rs (PID pacing, EMA frame rate, handle consumed by       *)
(* abort) and src/src/stream.rs (plain pacing, mean frame rate, cloneable  *)
(* handle).  The variable impl selects which one a behaviour follows.      *)
(*                                                                         *)
(* Durations are integers in microseconds; frame rates are integers in     *)
(* millihertz.  The PID output is kept in 1/100 microsecond before it is   *)
(* turned into a sleep duration.                                           *)
(*                                                                         *)
(* The atomic flag is read in modification order (a load returns the       *)
(* latest store).  What a load tells the worker about other memory of the  *)
(* caller follows the release/acquire rule: only an Acquire load reading   *)
(* the value of a Release store makes the caller's earlier writes visible; *)
(* otherwise the worker may see any prefix of them.                        *)
(***************************************************************************)
EXTENDS Integers, Sequences, FiniteSets, TLC

\* ------------------------------------------------------------------ bounds
MaxIter == 2        \* iterations started before cancellation is requested
MaxClones == 2      \* caller-side handles alive at once (stream.rs)
MaxWrites == 1      \* caller writes made before the cancellation request
MaxTimeout == 1     \* largest wait_for_completion timeout, in ms

\* ------------------------------------------------------- program constants
TargetFrameTime == 16000
FpsInterval == 200000
HistCap == 60
DefaultFps == 60000
IntegralMax == 10000000
Kp100 == 70
Ki100 == 15
Kd100 == 10
Alpha10 == 3

\* ------------------------------------------------------------ input domains
ProcTimes == {10000, 250000}     \* measured capture+decode time of a frame
CbTimes == {0}                   \* time the consumer callback takes
Impls == {"nokhwa", "stream"}

Min(a, b) == IF a < b THEN a ELSE b
Max(a, b) == IF a > b THEN a ELSE b

VARIABLES
  impl,            \* which create_camera_stream this stream runs
  pc,              \* worker position
  abortFlag,       \* the Arc<AtomicBool>
  flagOrd,         \* ordering of the store that wrote the flag's value
  flagPub,         \* caller writes published by that store
  setBy,           \* who set the flag first
  callerOrds,      \* orderings used by caller-side stores so far
  loadOrd,         \* ordering of the worker's last load of the flag
  workerSeen,      \* caller writes visible to the worker at its observation
  handles,         \* caller-side handles alive
  callerPc,        \* caller position
  abortCalled,     \* abort() has been called
  dropped,         \* a caller handle was dropped outside abort()
  preAbortWrites,  \* caller writes made before requesting cancellation
  capLog,          \* result of every capture that returned
  cbLog,           \* argument of every callback invocation
  result,          \* result of the current iteration's capture
  processing_time,        \* processing_time of the current iteration
  cbTime,          \* duration of the current iteration's callback
  steps,           \* steps taken in the current iteration
  frame_times, index, count,   \* frame-time ring buffer
  cached_fps,
  since_fps_update,        \* now - last_fps_update, saturated at FpsInterval
  last_error, integral,        \* PidController
  sleep_time,       \* duration of the last pacing sleep
  hung,            \* the capture in flight never returns
  stopCount,       \* times the worker left the loop
  released,        \* times the camera owned by the worker was dropped
  exitVia,         \* how the worker left the loop
  capsAfterSet, cbsAfterSet, checksAfterSet,
  waitTimeout, waitElapsed, waitResult, waitSawStopped,
  negImpl,         \* which negotiator runs: create_camera or create_camera_with_fallback
  negPc,           \* negotiator position
  cand,            \* loop index i: the format candidate of the current attempt
  negLog,          \* every device-layer call of the negotiation and its outcome
  held,            \* candidates whose device handle is alive
  negResult,       \* what the negotiator returned
  call,            \* the last frame or buffer conversion call and its result
  pushed,          \* durations pushed since the buffer was created or cleared
  pushSerial,      \* pushes made onto the buffer in all
  clears,          \* times the buffer was cleared
  feed,            \* what a PidController under exercise is fed
  computeCalls     \* calls of PidController::compute made so far

workerVars == <<pc, loadOrd, workerSeen, capLog, cbLog, result, processing_time,
                cbTime, steps, frame_times, index, count, cached_fps,
                since_fps_update, last_error, integral, sleep_time, hung, stopCount,
                released, exitVia, capsAfterSet, cbsAfterSet, checksAfterSet>>
flagVars == <<abortFlag, flagOrd, flagPub, setBy>>
callerVars == <<callerOrds, handles, callerPc, abortCalled, dropped,
                preAbortWrites, waitTimeout, waitElapsed, waitResult,
                waitSawStopped>>
streamVars == <<impl, workerVars, flagVars, callerVars>>
negVars == <<negImpl, negPc, cand, negLog, held, negResult>>
unitVars == <<pushed, pushSerial, clears, feed, computeCalls>>
otherVars == <<negVars, call, unitVars>>
vars == <<streamVars, otherVars>>

Terminated == pc \in {"exit", "unwind", "stopped"}

\* ------------------------------------------------- FrameTimeBuffer (nokhwa.rs)
\* FrameTimeBuffer::new
FrameTimeBuffer_new == [times |-> [i \in 0..(HistCap - 1) |-> 0], index |-> 0, count |-> 0]

\* variant: count grows with every push
push_Uncapped(buf, time) ==
  [times |-> [buf.times EXCEPT ![buf.index] = time],
   index |-> (buf.index + 1) % HistCap,
   count |-> buf.count + 1]

\* FrameTimeBuffer::push
push(buf, time) ==
  [times |-> [buf.times EXCEPT ![buf.index] = time],
   index |-> (buf.index + 1) % HistCap,
   count |-> IF buf.count < HistCap THEN buf.count + 1 ELSE buf.count]

\* variant: clear leaves the buffer as it is
clear_Keep(buf) == buf

\* FrameTimeBuffer::clear
clear(buf) == [buf EXCEPT !.index = 0, !.count = 0]

\* the loop body: ema = alpha * self.times[i] + (1.0 - alpha) * ema, then i + 1
EmaStep(times, s) ==
  [i |-> s.i + 1, ema |-> (Alpha10 * times[s.i] + (10 - Alpha10) * s.ema) \div 10]

\* for i in s.i..n: the loop state after the passes s.i, .., n - 1, run as the
\* passes up to the midpoint followed by the passes from the midpoint
RECURSIVE EmaLoop(_, _, _)
EmaLoop(times, n, s) ==
  IF s.i >= n THEN s
  ELSE IF s.i + 1 = n THEN EmaStep(times, s)
  ELSE EmaLoop(times, n, EmaLoop(times, (s.i + n) \div 2, s))

\* FrameTimeBuffer::ema with alpha = Alpha10 / 10
ema(buf) ==
  IF buf.count = 0 THEN 0
  ELSE EmaLoop(buf.times, buf.count, [i |-> 1, ema |-> buf.times[0]]).ema

RECURSIVE SumTake(_, _)
SumTake(times, n) == IF n = 0 THEN 0 ELSE times[n - 1] + SumTake(times, n - 1)

\* stream.rs: frame_times.iter().take(frame_count).sum() / frame_count
MeanTime(buf) == SumTake(buf.times, buf.count) \div buf.count

\* 1.0 / avg_time, in millihertz for avg_time in microseconds
FpsOf(avg) == 1000000000 \div avg

\* variant: an average of zero resets the frame rate to the default
FpsUpdate_ResetOnZero(avg, fps) == IF avg > 0 THEN FpsOf(avg) ELSE DefaultFps

\* the frame-rate recomputation guarded by the 200 ms interval
FpsUpdate(avg, fps) == IF avg > 0 THEN FpsOf(avg) ELSE fps

\* --------------------------------------------------- PidController (nokhwa.rs)
\* variant: only the upper limit is enforced
ClampIntegral_UpperOnly(x) == Min(x, IntegralMax)

\* self.integral.clamp(-10.0, 10.0)
ClampIntegral(x) == Max(0 - IntegralMax, Min(x, IntegralMax))

\* variant: the error is taken as actual - target
compute_ErrorReversed(lastErr, integ, target, actual) ==
  LET error == actual - target
      newInt == ClampIntegral(integ + error)
      derivative == error - lastErr
      output == Kp100 * error + Ki100 * newInt + Kd100 * derivative
  IN [last_error |-> error, integral |-> newInt, sleep |-> Max(output, 0) \div 100]

\* PidController::compute: the new controller state and the sleep duration
compute(lastErr, integ, target, actual) ==
  LET error == target - actual
      newInt == ClampIntegral(integ + error)
      derivative == error - lastErr
      output == Kp100 * error + Ki100 * newInt + Kd100 * derivative
  IN [last_error |-> error, integral |-> newInt, sleep |-> Max(output, 0) \div 100]

\* -------------------------------------------------------- the shared flag
\* variant: the store writes the negation of what the flag holds
StoreTrue_Toggle(ord, who) ==
  /\ abortFlag' = ~abortFlag
  /\ flagOrd' = ord
  /\ flagPub' = preAbortWrites
  /\ setBy' = IF abortFlag THEN setBy ELSE who

\* AtomicBool::store(true, ord) by `who`
StoreTrue(ord, who) ==
  /\ abortFlag' = TRUE
  /\ flagOrd' = ord
  /\ flagPub' = preAbortWrites
  /\ setBy' = IF abortFlag THEN setBy ELSE who

\* what an observing load of the flag makes visible of the caller's writes
Visible(ord) ==
  IF ord = "Acquire" /\ flagOrd = "Release" THEN {flagPub} ELSE 0..preAbortWrites

Bump(n) == Min(n + 1, 2)

\* the stream right after create_camera_stream has spawned the worker
StreamInit ==
  /\ impl \in Impls
  /\ pc = "loop"
  /\ abortFlag = FALSE
  /\ flagOrd = "Init"
  /\ flagPub = 0
  /\ setBy = "none"
  /\ callerOrds = {}
  /\ loadOrd = "None"
  /\ workerSeen = -1
  /\ handles = 1
  /\ callerPc = "idle"
  /\ abortCalled = FALSE
  /\ dropped = FALSE
  /\ preAbortWrites = 0
  /\ capLog = <<>>
  /\ cbLog = <<>>
  /\ result = "none"
  /\ processing_time = 0
  /\ cbTime = 0
  /\ steps = <<>>
  /\ frame_times = FrameTimeBuffer_new.times
  /\ index = 0
  /\ count = 0
  /\ cached_fps = DefaultFps
  /\ since_fps_update = 0
  /\ last_error = 0
  /\ integral = 0
  /\ sleep_time = 0
  /\ hung = FALSE
  /\ stopCount = 0
  /\ released = 0
  /\ exitVia = "none"
  /\ capsAfterSet = 0
  /\ cbsAfterSet = 0
  /\ checksAfterSet = 0
  /\ waitTimeout = 0
  /\ waitElapsed = 0
  /\ waitResult = "none"
  /\ waitSawStopped = FALSE

NoResult == [kind |-> "none"]
NoCall == [op |-> "none"]

\* no negotiation has run
NegIdle ==
  /\ negImpl = "none"
  /\ negPc = "idle"
  /\ cand = 0
  /\ negLog = <<>>
  /\ held = {}
  /\ negResult = NoResult

NoFeed == [mode |-> "none", target |-> 0, actual |-> 0]

\* no FrameTimeBuffer or PidController is exercised on its own
UnitIdle ==
  /\ pushed = <<>>
  /\ pushSerial = 0
  /\ clears = 0
  /\ feed = NoFeed
  /\ computeCalls = 0

Init ==
  /\ StreamInit
  /\ NegIdle
  /\ call = NoCall
  /\ UnitIdle

Elapse(d) == Min(since_fps_update + d, FpsInterval)

Buf == [times |-> frame_times, index |-> index, count |-> count]

histVars == <<frame_times, index, count>>
pidVars == <<last_error, integral>>
afterVars == <<capsAfterSet, cbsAfterSet, checksAfterSet>>
exitVars == <<stopCount, released, exitVia>>

\* ------------------------------------------------------------- the worker
\* top of the loop: frame_start is taken and the capture call is entered; the
\* per-iteration locals of the previous iteration are gone
CaptureBegin ==
  /\ pc = "loop"
  /\ Len(capLog) < MaxIter + (IF abortFlag THEN 1 ELSE 0)
  /\ pc' = "capture"
  /\ steps' = <<"capture">>
  /\ result' = "none"
  /\ processing_time' = 0
  /\ cbTime' = 0
  /\ sleep_time' = 0
  /\ capsAfterSet' = IF abortFlag THEN Bump(capsAfterSet) ELSE capsAfterSet
  /\ UNCHANGED <<otherVars, impl, flagVars, callerVars, loadOrd, workerSeen, capLog, cbLog,
                 histVars, cached_fps, since_fps_update, pidVars, hung, exitVars,
                 cbsAfterSet, checksAfterSet>>

\* variant: the loop goes from the capture straight to the abort check
AfterCapture_SkipCallback(r) == "check"

\* variant: the history is updated after a failed capture as well
AfterCapture_AlwaysUpdate(r) == "update"

\* where the loop goes once the capture call has returned
AfterCapture(r) == IF impl = "stream" /\ r = "err" THEN "callback" ELSE "update"

\* camera_frame / capture_frame returns Ok or Err after t microseconds
CaptureReturn(r, t) ==
  /\ pc = "capture"
  /\ ~hung
  /\ result' = r
  /\ processing_time' = t
  /\ capLog' = Append(capLog, r)
  /\ since_fps_update' = Elapse(t)
  /\ steps' = Append(steps, "captured")
  /\ pc' = AfterCapture(r)
  /\ UNCHANGED <<otherVars, impl, flagVars, callerVars, loadOrd, workerSeen, cbLog, cbTime,
                 histVars, cached_fps, pidVars, sleep_time, hung, exitVars,
                 afterVars>>

\* the device layer panics inside the capture call; the loop has no
\* catch_unwind, so the panic unwinds the worker thread
CaptureFault ==
  /\ pc = "capture"
  /\ ~hung
  /\ pc' = "unwind"
  /\ stopCount' = Bump(stopCount)
  /\ exitVia' = "panic"
  /\ UNCHANGED <<otherVars, impl, flagVars, callerVars, loadOrd, workerSeen, capLog, cbLog,
                 result, processing_time, cbTime, steps, histVars, cached_fps, since_fps_update,
                 pidVars, sleep_time, hung, released, afterVars>>

\* the device blocks for ever inside the capture call (there is no timeout)
CaptureHang ==
  /\ pc = "capture"
  /\ ~hung
  /\ hung' = TRUE
  /\ UNCHANGED <<otherVars, impl, flagVars, callerVars, pc, loadOrd, workerSeen, capLog,
                 cbLog, result, processing_time, cbTime, steps, histVars, cached_fps,
                 since_fps_update, pidVars, sleep_time, exitVars, afterVars>>

\* nokhwa.rs: history push or clear, then the 200 ms frame-rate recomputation
UpdateHistoryNokhwa ==
  /\ impl = "nokhwa"
  /\ pc = "update"
  /\ LET b == IF result = "ok" THEN push(Buf, processing_time) ELSE clear(Buf)
     IN /\ frame_times' = b.times
        /\ index' = b.index
        /\ count' = b.count
        /\ IF since_fps_update >= FpsInterval
           THEN /\ cached_fps' = FpsUpdate(ema(b), cached_fps)
                /\ since_fps_update' = 0
           ELSE UNCHANGED <<cached_fps, since_fps_update>>
  /\ steps' = Append(steps, "update")
  /\ pc' = "callback"
  /\ UNCHANGED <<otherVars, impl, flagVars, callerVars, loadOrd, workerSeen, capLog, cbLog,
                 result, processing_time, cbTime, pidVars, sleep_time, hung, exitVars,
                 afterVars>>

\* variant: the frame rate is recomputed in every iteration
UpdateHistoryStream_AlwaysRecompute ==
  /\ impl = "stream"
  /\ pc = "update"
  /\ LET b == push(Buf, processing_time)
     IN /\ frame_times' = b.times
        /\ index' = b.index
        /\ count' = b.count
        /\ cached_fps' = FpsUpdate(MeanTime(b), cached_fps)
        /\ since_fps_update' = 0
  /\ steps' = Append(steps, "update")
  /\ pc' = "callback"
  /\ UNCHANGED <<otherVars, impl, flagVars, callerVars, loadOrd, workerSeen, capLog, cbLog,
                 result, processing_time, cbTime, pidVars, sleep_time, hung, exitVars,
                 afterVars>>

\* stream.rs, Ok branch: history write, then the 200 ms frame-rate recomputation
UpdateHistoryStream ==
  /\ impl = "stream"
  /\ pc = "update"
  /\ LET b == push(Buf, processing_time)
     IN /\ frame_times' = b.times
        /\ index' = b.index
        /\ count' = b.count
        /\ IF since_fps_update >= FpsInterval
           THEN /\ cached_fps' = FpsUpdate(MeanTime(b), cached_fps)
                /\ since_fps_update' = 0
           ELSE UNCHANGED <<cached_fps, since_fps_update>>
  /\ steps' = Append(steps, "update")
  /\ pc' = "callback"
  /\ UNCHANGED <<otherVars, impl, flagVars, callerVars, loadOrd, workerSeen, capLog, cbLog,
                 result, processing_time, cbTime, pidVars, sleep_time, hung, exitVars,
                 afterVars>>

\* variant: the callback is always handed a frame
CallbackArg_AlwaysOk == [kind |-> "ok", fps |-> cached_fps]

\* the argument handed to the consumer callback
CallbackArg == [kind |-> result, fps |-> IF result = "ok" THEN cached_fps ELSE 0]

\* callback(...) is entered
CallbackInvoke ==
  /\ pc = "callback"
  /\ cbLog' = Append(cbLog, CallbackArg)
  /\ steps' = Append(steps, "callback")
  /\ cbsAfterSet' = IF abortFlag THEN Bump(cbsAfterSet) ELSE cbsAfterSet
  /\ pc' = "in_callback"
  /\ UNCHANGED <<otherVars, impl, flagVars, callerVars, loadOrd, workerSeen, capLog, result,
                 processing_time, cbTime, histVars, cached_fps, since_fps_update, pidVars,
                 sleep_time, hung, exitVars, capsAfterSet, checksAfterSet>>

\* the callback returns after d microseconds
CallbackReturn(d) ==
  /\ pc = "in_callback"
  /\ cbTime' = d
  /\ since_fps_update' = Elapse(d)
  /\ steps' = Append(steps, "returned")
  /\ pc' = "check"
  /\ UNCHANGED <<otherVars, impl, flagVars, callerVars, loadOrd, workerSeen, capLog, cbLog,
                 result, processing_time, histVars, cached_fps, pidVars, sleep_time, hung,
                 exitVars, afterVars>>

\* the consumer callback panics; the panic unwinds the worker thread
CallbackPanic ==
  /\ pc = "in_callback"
  /\ pc' = "unwind"
  /\ stopCount' = Bump(stopCount)
  /\ exitVia' = "panic"
  /\ UNCHANGED <<otherVars, impl, flagVars, callerVars, loadOrd, workerSeen, capLog, cbLog,
                 result, processing_time, cbTime, steps, histVars, cached_fps, since_fps_update,
                 pidVars, sleep_time, hung, released, afterVars>>

\* ordering of the worker's load: abort.load(Relaxed) in nokhwa.rs,
\* is_aborted() = load(Acquire) in stream.rs
LoadOrdering == IF impl = "nokhwa" THEN "Relaxed" ELSE "Acquire"

\* variant: the loop goes on whatever the flag holds
AbortCheck_NeverBreaks ==
  /\ pc = "check"
  /\ loadOrd' = LoadOrdering
  /\ steps' = Append(steps, "check")
  /\ checksAfterSet' = IF abortFlag THEN Bump(checksAfterSet) ELSE checksAfterSet
  /\ pc' = "sleep"
  /\ UNCHANGED <<workerSeen, stopCount, exitVia>>
  /\ UNCHANGED <<otherVars, impl, flagVars, callerVars, capLog, cbLog, result, processing_time,
                 cbTime, histVars, cached_fps, since_fps_update, pidVars, sleep_time, hung,
                 released, capsAfterSet, cbsAfterSet>>

\* if abort.load(..) { break; }
AbortCheck ==
  /\ pc = "check"
  /\ loadOrd' = LoadOrdering
  /\ steps' = Append(steps, "check")
  /\ checksAfterSet' = IF abortFlag THEN Bump(checksAfterSet) ELSE checksAfterSet
  /\ IF abortFlag
     THEN /\ pc' = "exit"
          /\ workerSeen' \in Visible(LoadOrdering)
          /\ stopCount' = Bump(stopCount)
          /\ exitVia' = "break"
     ELSE /\ pc' = "sleep"
          /\ UNCHANGED <<workerSeen, stopCount, exitVia>>
  /\ UNCHANGED <<otherVars, impl, flagVars, callerVars, capLog, cbLog, result, processing_time,
                 cbTime, histVars, cached_fps, since_fps_update, pidVars, sleep_time, hung,
                 released, capsAfterSet, cbsAfterSet>>

\* variant: the controller is run and the loop sleeps after every frame
PaceNokhwa_AlwaysSleep ==
  /\ impl = "nokhwa"
  /\ pc = "sleep"
  /\ LET c == compute(last_error, integral, TargetFrameTime, processing_time)
     IN /\ last_error' = c.last_error
        /\ integral' = c.integral
        /\ sleep_time' = c.sleep
        /\ since_fps_update' = Elapse(c.sleep)
        /\ steps' = Append(steps, "sleep")
  /\ pc' = "loop"
  /\ UNCHANGED <<otherVars, impl, flagVars, callerVars, loadOrd, workerSeen, capLog, cbLog,
                 result, processing_time, cbTime, histVars, cached_fps, hung, exitVars,
                 afterVars>>

\* nokhwa.rs: PID throttling, only when the frame was faster than the target
PaceNokhwa ==
  /\ impl = "nokhwa"
  /\ pc = "sleep"
  /\ IF processing_time < TargetFrameTime
     THEN LET c == compute(last_error, integral, TargetFrameTime, processing_time)
          IN /\ last_error' = c.last_error
             /\ integral' = c.integral
             /\ sleep_time' = c.sleep
             /\ since_fps_update' = Elapse(c.sleep)
             /\ steps' = Append(steps, "sleep")
     ELSE /\ sleep_time' = 0
          /\ UNCHANGED <<pidVars, since_fps_update, steps>>
  /\ pc' = "loop"
  /\ UNCHANGED <<otherVars, impl, flagVars, callerVars, loadOrd, workerSeen, capLog, cbLog,
                 result, processing_time, cbTime, histVars, cached_fps, hung, exitVars,
                 afterVars>>

\* stream.rs: sleep for the rest of the target interval
PaceStream ==
  /\ impl = "stream"
  /\ pc = "sleep"
  /\ LET elapsed == processing_time + cbTime
     IN IF elapsed < TargetFrameTime
        THEN /\ sleep_time' = TargetFrameTime - elapsed
             /\ since_fps_update' = Elapse(TargetFrameTime - elapsed)
             /\ steps' = Append(steps, "sleep")
        ELSE /\ sleep_time' = 0
             /\ UNCHANGED <<since_fps_update, steps>>
  /\ pc' = "loop"
  /\ UNCHANGED <<otherVars, impl, flagVars, callerVars, loadOrd, workerSeen, capLog, cbLog,
                 result, processing_time, cbTime, histVars, cached_fps, pidVars, hung,
                 exitVars, afterVars>>

\* variant: the closure starts the loop again instead of ending
ThreadExitNokhwa_Restart ==
  /\ impl = "nokhwa"
  /\ pc \in {"exit", "unwind"}
  /\ pc' = "loop"
  /\ released' = released
  /\ UNCHANGED <<otherVars, impl, flagVars, callerVars, loadOrd, workerSeen, capLog, cbLog,
                 result, processing_time, cbTime, steps, histVars, cached_fps, since_fps_update,
                 pidVars, sleep_time, hung, stopCount, exitVia, afterVars>>

\* variant: the camera is dropped on break only and leaked while unwinding
ThreadExitNokhwa_LeakOnPanic ==
  /\ impl = "nokhwa"
  /\ pc \in {"exit", "unwind"}
  /\ pc' = "stopped"
  /\ released' = IF pc = "exit" THEN Bump(released) ELSE released
  /\ UNCHANGED <<otherVars, impl, flagVars, callerVars, loadOrd, workerSeen, capLog, cbLog,
                 result, processing_time, cbTime, steps, histVars, cached_fps, since_fps_update,
                 pidVars, sleep_time, hung, stopCount, exitVia, afterVars>>

\* nokhwa.rs: the thread closure ends (after break or while unwinding) and
\* drops the camera it owns
ThreadExitNokhwa ==
  /\ impl = "nokhwa"
  /\ pc \in {"exit", "unwind"}
  /\ pc' = "stopped"
  /\ released' = Bump(released)
  /\ UNCHANGED <<otherVars, impl, flagVars, callerVars, loadOrd, workerSeen, capLog, cbLog,
                 result, processing_time, cbTime, steps, histVars, cached_fps, since_fps_update,
                 pidVars, sleep_time, hung, stopCount, exitVia, afterVars>>

\* stream.rs: the thread closure ends and drops the camera and abort_clone,
\* whose Drop stores true with Relaxed ordering
ThreadExitStream ==
  /\ impl = "stream"
  /\ pc \in {"exit", "unwind"}
  /\ pc' = "stopped"
  /\ released' = Bump(released)
  /\ StoreTrue("Relaxed", "worker")
  /\ UNCHANGED <<otherVars, impl, callerVars, loadOrd, workerSeen, capLog, cbLog,
                 result, processing_time, cbTime, steps, histVars, cached_fps, since_fps_update,
                 pidVars, sleep_time, hung, stopCount, exitVia, afterVars>>

\* ------------------------------------------------------------- the caller
\* the caller mutates state of its own before it requests cancellation
CallerWrite ==
  /\ callerPc = "idle"
  /\ handles >= 1
  /\ ~abortCalled /\ ~dropped
  /\ preAbortWrites < MaxWrites
  /\ preAbortWrites' = preAbortWrites + 1
  /\ UNCHANGED <<otherVars, impl, workerVars, flagVars, callerOrds, handles, callerPc,
                 abortCalled, dropped, waitTimeout, waitElapsed, waitResult,
                 waitSawStopped>>

\* nokhwa.rs CameraAbort::abort(self): the Release store; self is dropped
\* when the function returns (AbortDrop)
AbortNokhwa ==
  /\ impl = "nokhwa"
  /\ callerPc = "idle"
  /\ handles = 1
  /\ StoreTrue("Release", "abort")
  /\ callerOrds' = callerOrds \cup {"Release"}
  /\ abortCalled' = TRUE
  /\ callerPc' = "abort_drop"
  /\ UNCHANGED <<otherVars, impl, workerVars, handles, dropped, preAbortWrites, waitTimeout,
                 waitElapsed, waitResult, waitSawStopped>>

\* nokhwa.rs: end of abort(self): Drop::drop stores true with Relaxed ordering
AbortDrop ==
  /\ callerPc = "abort_drop"
  /\ StoreTrue("Relaxed", "drop")
  /\ callerOrds' = callerOrds \cup {"Relaxed"}
  /\ handles' = handles - 1
  /\ callerPc' = "idle"
  /\ UNCHANGED <<otherVars, impl, workerVars, abortCalled, dropped, preAbortWrites,
                 waitTimeout, waitElapsed, waitResult, waitSawStopped>>

\* stream.rs CameraAbort::abort(&self): the Release store; the handle lives on
AbortStream ==
  /\ impl = "stream"
  /\ callerPc = "idle"
  /\ handles >= 1
  /\ StoreTrue("Release", "abort")
  /\ callerOrds' = callerOrds \cup {"Release"}
  /\ abortCalled' = TRUE
  /\ UNCHANGED <<otherVars, impl, workerVars, handles, callerPc, dropped, preAbortWrites,
                 waitTimeout, waitElapsed, waitResult, waitSawStopped>>

\* variant: dropping a handle leaves the flag alone
DropHandle_NoStore ==
  /\ callerPc = "idle"
  /\ handles >= 1
  /\ handles' = handles - 1
  /\ dropped' = TRUE
  /\ UNCHANGED <<otherVars, impl, workerVars, flagVars, callerOrds, callerPc, abortCalled,
                 preAbortWrites, waitTimeout, waitElapsed, waitResult,
                 waitSawStopped>>

\* variant: only the drop of the last caller handle sets the flag
DropHandle_LastOnly ==
  /\ callerPc = "idle"
  /\ handles >= 1
  /\ IF handles = 1
     THEN /\ StoreTrue("Relaxed", "drop")
          /\ callerOrds' = callerOrds \cup {"Relaxed"}
     ELSE UNCHANGED <<flagVars, callerOrds>>
  /\ handles' = handles - 1
  /\ dropped' = TRUE
  /\ UNCHANGED <<otherVars, impl, workerVars, callerPc, abortCalled, preAbortWrites,
                 waitTimeout, waitElapsed, waitResult, waitSawStopped>>

\* Drop for CameraAbort: a caller-side handle goes out of scope
DropHandle ==
  /\ callerPc = "idle"
  /\ handles >= 1
  /\ StoreTrue("Relaxed", "drop")
  /\ callerOrds' = callerOrds \cup {"Relaxed"}
  /\ handles' = handles - 1
  /\ dropped' = TRUE
  /\ UNCHANGED <<otherVars, impl, workerVars, callerPc, abortCalled, preAbortWrites,
                 waitTimeout, waitElapsed, waitResult, waitSawStopped>>

\* stream.rs #[derive(Clone)]: another handle on the same flag
CloneHandle ==
  /\ impl = "stream"
  /\ callerPc = "idle"
  /\ handles >= 1
  /\ handles < MaxClones
  /\ handles' = handles + 1
  /\ UNCHANGED <<otherVars, impl, workerVars, flagVars, callerOrds, callerPc, abortCalled,
                 dropped, preAbortWrites, waitTimeout, waitElapsed, waitResult,
                 waitSawStopped>>

\* nokhwa.rs wait_for_completion(&self, timeout): start = Instant::now()
WaitBegin(timeout) ==
  /\ impl = "nokhwa"
  /\ callerPc = "idle"
  /\ handles = 1
  /\ callerPc' = "wait"
  /\ waitTimeout' = timeout
  /\ waitElapsed' = 0
  /\ waitResult' = "none"
  /\ waitSawStopped' = FALSE
  /\ UNCHANGED <<otherVars, impl, workerVars, flagVars, callerOrds, handles, abortCalled,
                 dropped, preAbortWrites>>

\* nokhwa.rs wait_for_completion: one round of the polling loop
WaitPoll ==
  /\ callerPc = "wait"
  /\ IF abortFlag
     THEN /\ waitResult' = "true"
          /\ waitSawStopped' = Terminated
          /\ callerPc' = "idle"
          /\ waitElapsed' = 0 /\ waitTimeout' = 0
     ELSE IF waitElapsed > waitTimeout
     THEN /\ waitResult' = "false"
          /\ waitSawStopped' = Terminated
          /\ callerPc' = "idle"
          /\ waitElapsed' = 0 /\ waitTimeout' = 0
     ELSE /\ waitElapsed' = waitElapsed + 1
          /\ UNCHANGED <<waitResult, waitSawStopped, callerPc, waitTimeout>>
  /\ UNCHANGED <<otherVars, impl, workerVars, flagVars, callerOrds, handles, abortCalled,
                 dropped, preAbortWrites>>

Worker ==
  \/ CaptureBegin
  \/ \E r \in {"ok", "err"}, t \in ProcTimes : CaptureReturn(r, t)
  \/ CaptureFault
  \/ CaptureHang
  \/ UpdateHistoryNokhwa
  \/ UpdateHistoryStream
  \/ CallbackInvoke
  \/ \E d \in CbTimes : CallbackReturn(d)
  \/ CallbackPanic
  \/ AbortCheck
  \/ PaceNokhwa
  \/ PaceStream
  \/ ThreadExitNokhwa
  \/ ThreadExitStream

Caller ==
  \/ CallerWrite
  \/ AbortNokhwa
  \/ AbortDrop
  \/ AbortStream
  \/ DropHandle
  \/ CloneHandle
  \/ \E timeout \in 0..MaxTimeout : WaitBegin(timeout)
  \/ WaitPoll

Next == Worker \/ Caller

Spec == Init /\ [][Next]_vars

\* the worker thread is scheduled as long as it can take a step
FairSpec == Spec /\ WF_vars(Worker)

\* ------------------------------------------------ device negotiation
\* create_camera (camera.rs, nokhwa.rs) and create_camera_with_fallback
\* (lib.rs, conversions.rs).  The device layer answers every call with Ok, with
\* Err carrying a message, or with a panic.
NegImpls == {"create_camera", "create_camera_with_fallback"}
ErrMsgs == {"E1", "E2"}
Outcomes == {"ok", "err", "panic"}

\* variant: the most expensive format is requested first
requested_formats_YuyvFirst == <<"YUYV", "RGB", "RGBA">>

\* let requested_formats = vec![RgbAFormat, RgbFormat, YuyvFormat]
requested_formats == <<"RGBA", "RGB", "YUYV">>

NegInit ==
  /\ StreamInit
  /\ negImpl \in NegImpls
  /\ negPc = "for"
  /\ cand = 0
  /\ negLog = <<>>
  /\ held = {}
  /\ negResult = NoResult
  /\ call = NoCall
  /\ UnitIdle

LogEntry(step, o, e) ==
  [cand |-> cand, step |-> step, format |-> requested_formats[cand + 1],
   outcome |-> o, msg |-> IF o = "err" THEN e ELSE ""]

SetLast(q, x) == [q EXCEPT ![Len(q)] = x]

Returned(kind, dev, text, cause) == [kind |-> kind, dev |-> dev, text |-> text, cause |-> cause]

\* for (i, format) in requested_formats: Camera::new(index, format) is entered
CameraNewCall ==
  /\ negPc = "for"
  /\ cand < Len(requested_formats)
  /\ negLog' = Append(negLog, LogEntry("new", "pending", ""))
  /\ negPc' = "new"
  /\ UNCHANGED <<streamVars, unitVars, call, negImpl, cand, held, negResult>>

\* create_camera: the match on catch_unwind(|| Camera::new(..))
create_camera_NewReturn(o, e) ==
  /\ negImpl = "create_camera"
  /\ negPc = "new"
  /\ negLog' = SetLast(negLog, LogEntry("new", o, e))
  /\ IF o = "ok"
     THEN /\ held' = held \cup {cand}
          /\ negPc' = "open_stream"
          /\ UNCHANGED cand
     ELSE /\ cand' = cand + 1
          /\ negPc' = "for"
          /\ UNCHANGED held
  /\ UNCHANGED <<streamVars, unitVars, call, negImpl, negResult>>

\* variant: a stream that failed to start is returned all the same
create_camera_OpenStream_IgnoreError(o, e) ==
  /\ negImpl = "create_camera"
  /\ negPc = "open_stream"
  /\ negLog' = Append(negLog, LogEntry("open_stream", o, e))
  /\ IF o \in {"ok", "err"}
     THEN /\ negResult' = Returned("ok", cand, "", "")
          /\ negPc' = "done"
          /\ UNCHANGED <<cand, held>>
     ELSE /\ held' = held \ {cand}
          /\ negResult' = Returned("panic", -1, "", "")
          /\ negPc' = "done"
          /\ UNCHANGED cand
  /\ UNCHANGED <<streamVars, unitVars, call, negImpl>>

\* variant: the camera of a failed start is kept alive across iterations
create_camera_OpenStream_Leak(o, e) ==
  /\ negImpl = "create_camera"
  /\ negPc = "open_stream"
  /\ negLog' = Append(negLog, LogEntry("open_stream", o, e))
  /\ IF o = "ok"
     THEN /\ negResult' = Returned("ok", cand, "", "")
          /\ negPc' = "done"
          /\ UNCHANGED <<cand, held>>
     ELSE IF o = "err"
     THEN /\ cand' = cand + 1
          /\ negPc' = "for"
          /\ UNCHANGED <<held, negResult>>
     ELSE /\ held' = held \ {cand}
          /\ negResult' = Returned("panic", -1, "", "")
          /\ negPc' = "done"
          /\ UNCHANGED cand
  /\ UNCHANGED <<streamVars, unitVars, call, negImpl>>

\* create_camera: cam.open_stream() on the camera just created.  It runs
\* outside catch_unwind: Ok returns the camera, Err drops it at the end of the
\* match arm and continues, a panic drops it while unwinding out of
\* create_camera
create_camera_OpenStream(o, e) ==
  /\ negImpl = "create_camera"
  /\ negPc = "open_stream"
  /\ negLog' = Append(negLog, LogEntry("open_stream", o, e))
  /\ IF o = "ok"
     THEN /\ negResult' = Returned("ok", cand, "", "")
          /\ negPc' = "done"
          /\ UNCHANGED <<cand, held>>
     ELSE IF o = "err"
     THEN /\ held' = held \ {cand}
          /\ cand' = cand + 1
          /\ negPc' = "for"
          /\ UNCHANGED negResult
     ELSE /\ held' = held \ {cand}
          /\ negResult' = Returned("panic", -1, "", "")
          /\ negPc' = "done"
          /\ UNCHANGED cand
  /\ UNCHANGED <<streamVars, unitVars, call, negImpl>>

\* create_camera: the loop is over, Err(anyhow!("Could not create camera ..."))
create_camera_Exhausted ==
  /\ negImpl = "create_camera"
  /\ negPc = "for"
  /\ cand = Len(requested_formats)
  /\ negResult' = Returned("err", -1, "Could not create camera with any supported format", "")
  /\ negPc' = "done"
  /\ UNCHANGED <<streamVars, unitVars, call, negImpl, cand, negLog, held>>

\* create_camera_with_fallback: the match on Camera::new(..), which is not
\* wrapped in catch_unwind; the stream is not started here
create_camera_with_fallback_NewReturn(o, e) ==
  /\ negImpl = "create_camera_with_fallback"
  /\ negPc = "new"
  /\ negLog' = SetLast(negLog, LogEntry("new", o, e))
  /\ IF o = "ok"
     THEN /\ held' = held \cup {cand}
          /\ negResult' = Returned("ok", cand, "", "")
          /\ negPc' = "done"
          /\ UNCHANGED cand
     ELSE IF o = "err"
     THEN IF cand = Len(requested_formats) - 1
          THEN /\ negResult' = Returned("err", -1, "Failed to create camera with any format", e)
               /\ negPc' = "done"
               /\ UNCHANGED <<cand, held>>
          ELSE /\ cand' = cand + 1
               /\ negPc' = "for"
               /\ UNCHANGED <<held, negResult>>
     ELSE /\ negResult' = Returned("panic", -1, "", "")
          /\ negPc' = "done"
          /\ UNCHANGED <<cand, held>>
  /\ UNCHANGED <<streamVars, unitVars, call, negImpl>>

NegNext ==
  \/ CameraNewCall
  \/ \E o \in Outcomes, e \in ErrMsgs : create_camera_NewReturn(o, e)
  \/ \E o \in Outcomes, e \in ErrMsgs : create_camera_OpenStream(o, e)
  \/ create_camera_Exhausted
  \/ \E o \in Outcomes, e \in ErrMsgs : create_camera_with_fallback_NewReturn(o, e)

NegSpec == NegInit /\ [][NegNext]_vars

\* ------------------------------------------------ Camera::new (lib.rs)
\* The constructor of the exported Camera: create_camera_with_fallback, then
\* camera.open_stream() on what it returned.
CamInit ==
  /\ NegInit
  /\ negImpl = "create_camera_with_fallback"

Constructed(kind, dev, text, cause) ==
  [op |-> "Camera::new", out |-> Returned(kind, dev, text, cause)]

\* variant: a stream that fails to start sends the constructor back into the
\* fallback loop for the next candidate
Camera_new_Return_Retry(o, e) ==
  /\ negImpl = "create_camera_with_fallback"
  /\ negPc = "done"
  /\ call = NoCall
  /\ IF negResult.kind # "ok"
     THEN /\ call' = Constructed(negResult.kind, -1, negResult.text, negResult.cause)
          /\ negPc' = "constructed"
          /\ UNCHANGED <<negLog, held, cand>>
     ELSE /\ negLog' = Append(negLog, LogEntry("open_stream", o, e))
          /\ IF o = "ok"
             THEN /\ call' = Constructed("ok", negResult.dev, "", "")
                  /\ negPc' = "constructed"
                  /\ UNCHANGED <<held, cand>>
             ELSE IF o = "err" /\ cand < Len(requested_formats) - 1
             THEN /\ held' = {}
                  /\ cand' = cand + 1
                  /\ negPc' = "for"
                  /\ UNCHANGED call
             ELSE /\ call' = Constructed(o, -1, "Failed to open camera stream", e)
                  /\ held' = {}
                  /\ negPc' = "constructed"
                  /\ UNCHANGED cand
  /\ UNCHANGED <<streamVars, unitVars, negImpl, negResult>>

\* Camera::new after create_camera_with_fallback has returned: its Err (or
\* panic) is passed on by `?`; on Ok the stream is started once, and an Err of
\* open_stream is returned as "Failed to open camera stream: {e}", dropping the
\* camera
Camera_new_Return(o, e) ==
  /\ negImpl = "create_camera_with_fallback"
  /\ negPc = "done"
  /\ call = NoCall
  /\ IF negResult.kind # "ok"
     THEN /\ call' = Constructed(negResult.kind, -1, negResult.text, negResult.cause)
          /\ UNCHANGED <<negLog, held>>
     ELSE /\ negLog' = Append(negLog, LogEntry("open_stream", o, e))
          /\ IF o = "ok"
             THEN /\ call' = Constructed("ok", negResult.dev, "", "")
                  /\ UNCHANGED held
             ELSE /\ call' = Constructed(o, -1,
                                         IF o = "err" THEN "Failed to open camera stream" ELSE "",
                                         IF o = "err" THEN e ELSE "")
                  /\ held' = {}
  /\ negPc' = "constructed"
  /\ UNCHANGED <<streamVars, unitVars, negImpl, negResult, cand>>

CamNext ==
  \/ CameraNewCall
  \/ \E o \in Outcomes, e \in ErrMsgs : create_camera_with_fallback_NewReturn(o, e)
  \/ \E o \in Outcomes, e \in ErrMsgs : Camera_new_Return(o, e)

CamSpec == CamInit /\ [][CamNext]_vars

\* ------------------------------------------------ frame conversion
\* rgb_to_rgba and capture_frame (conversions.rs, stream.rs) and the
\* standalone buffer conversions (lib.rs).  A call is recorded with its inputs
\* and what it returned; buffers are sequences of bytes.  The functions keep
\* no state between calls, so a behaviour makes one call.
MaxLen == 6
MaxDim == 2
Bytes == {7, 255}
Seeds == {0, 250}
Buffers == UNION {[1..n -> Bytes] : n \in 0..MaxLen}
FrameFormats == {"MJPEG", "YUYV", "NV12", "RAWRGB", "GRAY"}
PixelFormats == {"RgbAFormat", "RgbFormat", "YuyvFormat"}

\* variant: the channels are pushed in reverse order with alpha 0
PushPixel_Bgr0(rgba, chunk) == rgba \o <<chunk[3], chunk[2], chunk[1], 0>>

\* rgba.push(chunk[0]); rgba.push(chunk[1]); rgba.push(chunk[2]); rgba.push(255)
PushPixel(rgba, chunk) == rgba \o <<chunk[1], chunk[2], chunk[3], 255>>

\* rgb.chunks(3): consecutive chunks of 3 bytes, the last one shorter when the
\* length is not a multiple of 3
RECURSIVE chunks(_, _)
chunks(rgb, n) ==
  IF rgb = <<>> THEN <<>>
  ELSE <<SubSeq(rgb, 1, Min(n, Len(rgb)))>> \o chunks(SubSeq(rgb, Min(n, Len(rgb)) + 1, Len(rgb)), n)

\* variant: a trailing partial chunk is skipped (chunks_exact)
LoopBody_SkipPartial(acc, chunk) ==
  IF acc.panicked THEN acc
  ELSE IF Len(chunk) < 3 THEN acc
  ELSE [panicked |-> FALSE, rgba |-> PushPixel(acc.rgba, chunk)]

\* the loop body: indexing chunk[1] or chunk[2] of a short chunk is out of
\* bounds and panics, and the vector built so far is lost
LoopBody(acc, chunk) ==
  IF acc.panicked THEN acc
  ELSE IF Len(chunk) < 3 THEN [panicked |-> TRUE, rgba |-> <<>>]
  ELSE [panicked |-> FALSE, rgba |-> PushPixel(acc.rgba, chunk)]

\* for chunk in rgb.chunks(3) { .. }
RECURSIVE ForChunks(_, _)
ForChunks(cs, acc) ==
  IF cs = <<>> THEN acc ELSE ForChunks(Tail(cs), LoopBody(acc, Head(cs)))

\* let mut rgba = Vec::with_capacity(..); for ..; rgba
rgb_to_rgba(rgb) == ForChunks(chunks(rgb, 3), [panicked |-> FALSE, rgba |-> <<>>])

\* the bytes a decoder writes: n bytes determined by the frame's content
Pix(n, seed) == [k \in 1..n |-> (seed + 3 * k) % 256]

\* channels of the image buffer decode_image::<P>() yields
Channels(P) == IF P = "RgbAFormat" THEN 4 ELSE 3

\* buffer.decode_image::<P>(): Err, or an image of the frame's resolution
decode_image(P, w, h, dec, seed) ==
  IF dec[P] THEN [ok |-> TRUE, data |-> Pix(w * h * Channels(P), seed)]
  ELSE [ok |-> FALSE, data |-> <<>>]

Decoded(kind, data, text, format, calls) ==
  [kind |-> kind, data |-> data, text |-> text, format |-> format, calls |-> calls]

\* the MJPEG and NV12 arms: decode_image::<RgbAFormat>(), decoded.to_vec()
DecodeDirect(text, w, h, dec, seed) ==
  LET d == decode_image("RgbAFormat", w, h, dec, seed)
  IN IF d.ok THEN Decoded("ok", d.data, "", "", <<"RgbAFormat">>)
     ELSE Decoded("err", <<>>, text, "", <<"RgbAFormat">>)

Expanded(d, calls) ==
  LET r == rgb_to_rgba(d.data)
  IN IF r.panicked THEN Decoded("panic", <<>>, "", "", calls)
     ELSE Decoded("ok", r.rgba, "", "", calls)

\* variant: the 3-channel intermediate is returned as it is
DecodeYuyv_NoExpand(w, h, dec, seed) ==
  LET d == decode_image("YuyvFormat", w, h, dec, seed)
  IN IF d.ok THEN Decoded("ok", d.data, "", "", <<"YuyvFormat">>)
     ELSE Decoded("err", <<>>, "Decoding YUYV", "", <<"YuyvFormat">>)

\* the YUYV arm: decode_image::<YuyvFormat>(), then rgb_to_rgba(&decoded)
DecodeYuyv(w, h, dec, seed) ==
  LET d == decode_image("YuyvFormat", w, h, dec, seed)
  IN IF d.ok THEN Expanded(d, <<"YuyvFormat">>)
     ELSE Decoded("err", <<>>, "Decoding YUYV", "", <<"YuyvFormat">>)

\* variant: the 4-channel decoder is tried first
DecodeOther_RgbaFirst(fmt, w, h, dec, seed) ==
  LET d4 == decode_image("RgbAFormat", w, h, dec, seed)
      d3 == decode_image("RgbFormat", w, h, dec, seed)
  IN IF d4.ok THEN Decoded("ok", d4.data, "", "", <<"RgbAFormat">>)
     ELSE IF d3.ok THEN Expanded(d3, <<"RgbAFormat", "RgbFormat">>)
     ELSE Decoded("err", <<>>, "Failed to decode frame with format", fmt,
                  <<"RgbAFormat", "RgbFormat">>)

\* the `_` arm: decode_image::<RgbFormat>() then rgb_to_rgba, else
\* decode_image::<RgbAFormat>(), else Err naming source_format
DecodeOther(fmt, w, h, dec, seed) ==
  LET d3 == decode_image("RgbFormat", w, h, dec, seed)
      d4 == decode_image("RgbAFormat", w, h, dec, seed)
  IN IF d3.ok THEN Expanded(d3, <<"RgbFormat">>)
     ELSE IF d4.ok THEN Decoded("ok", d4.data, "", "", <<"RgbFormat", "RgbAFormat">>)
     ELSE Decoded("err", <<>>, "Failed to decode frame with format", fmt,
                  <<"RgbFormat", "RgbAFormat">>)

\* capture_frame(camera): camera.frame()?, then the match on
\* buffer.source_frame_format(); width and height are camera.resolution()
capture_frame(frameOk, fmt, w, h, dec, seed) ==
  LET x == IF ~frameOk THEN Decoded("err", <<>>, "Capturing frame", "", <<>>)
           ELSE IF fmt = "MJPEG" THEN DecodeDirect("Decoding MJPEG", w, h, dec, seed)
           ELSE IF fmt = "YUYV" THEN DecodeYuyv(w, h, dec, seed)
           ELSE IF fmt = "NV12" THEN DecodeDirect("Decoding NV12", w, h, dec, seed)
           ELSE DecodeOther(fmt, w, h, dec, seed)
  IN [kind |-> x.kind, data |-> x.data, width |-> w, height |-> h,
      text |-> x.text, format |-> x.format, calls |-> x.calls]

ConvInit ==
  /\ StreamInit
  /\ NegIdle
  /\ call = NoCall
  /\ UnitIdle

CallRgbToRgba ==
  \E rgb \in Buffers :
    /\ call = NoCall
    /\ call' = [op |-> "rgb_to_rgba", rgb |-> rgb, out |-> rgb_to_rgba(rgb)]
    /\ UNCHANGED <<streamVars, negVars, unitVars>>

CallCaptureFrame ==
  \E frameOk \in BOOLEAN, fmt \in FrameFormats, w \in 1..MaxDim, h \in 1..MaxDim,
     dec \in [PixelFormats -> BOOLEAN], seed \in Seeds :
    /\ call = NoCall
    /\ call' = [op |-> "capture_frame", frameOk |-> frameOk, format |-> fmt,
                w |-> w, h |-> h, dec |-> dec, seed |-> seed,
                out |-> capture_frame(frameOk, fmt, w, h, dec, seed)]
    /\ UNCHANGED <<streamVars, negVars, unitVars>>

\* the body shared by the buf_*_to_rgb functions: dest = vec![0; w*h*3], the
\* nokhwa::utils converter is called on the source whatever its length; it
\* returns Ok, returns Err or panics.  Its Err is mapped to an error with the
\* given text, except in buf_bgr_to_rgb (text ""), which discards the result; a
\* panic is not caught and leaves the function
BufConvert(op, text, w, h, srcLen, decoder, seed) ==
  LET dest == IF decoder = "ok" THEN Pix(w * h * 3, seed) ELSE [k \in 1..(w * h * 3) |-> 0]
  IN [op |-> op, w |-> w, h |-> h, srcLen |-> srcLen, decoderCalled |-> TRUE,
      decoder |-> decoder,
      out |-> IF decoder = "panic"
              THEN [kind |-> "panic", data |-> <<>>, text |-> ""]
              ELSE IF decoder = "ok" \/ text = ""
              THEN [kind |-> "ok", data |-> dest, text |-> ""]
              ELSE [kind |-> "err", data |-> <<>>, text |-> text]]

\* a call of one of the buf_*_to_rgb functions with any dimensions and source
BufCall(op, text) ==
  /\ call = NoCall
  /\ \E w \in 0..MaxDim, h \in 0..MaxDim, srcLen \in 0..MaxLen,
        decoder \in Outcomes, seed \in Seeds :
       call' = BufConvert(op, text, w, h, srcLen, decoder, seed)
  /\ UNCHANGED <<streamVars, negVars, unitVars>>

\* let _ = nokhwa::utils::buf_bgr_to_rgb(..); Ok(Buffer::from(dest))
buf_bgr_to_rgb == BufCall("buf_bgr_to_rgb", "")

buf_mjpeg_to_rgb == BufCall("buf_mjpeg_to_rgb", "Failed to convert MJPEG")

buf_nv12_to_rgb == BufCall("buf_nv12_to_rgb", "Failed to convert NV12")

buf_yuyv422_to_rgb == BufCall("buf_yuyv422_to_rgb", "Failed to convert YUYV")

ConvNext ==
  \/ CallRgbToRgba
  \/ CallCaptureFrame
  \/ buf_bgr_to_rgb
  \/ buf_mjpeg_to_rgb
  \/ buf_nv12_to_rgb
  \/ buf_yuyv422_to_rgb

ConvSpec == ConvInit /\ [][ConvNext]_vars

\* ------------------------------------------------ FrameTimeBuffer on its own
\* A FrameTimeBuffer (the variables frame_times, index, count) driven by push
\* and clear alone, longer than the stream model runs it; pushed keeps what was
\* pushed since the buffer was created or last cleared, oldest first.
MaxPushes == 62
MaxClears == 1

\* the k-th duration pushed: every push has its own duration
PushTimes(k) == {1000 * k}

loopVars == <<pc, loadOrd, workerSeen, capLog, cbLog, result, processing_time,
              cbTime, steps, cached_fps, since_fps_update, hung, stopCount,
              released, exitVia, capsAfterSet, cbsAfterSet, checksAfterSet>>
restOfWorker == <<loopVars, sleep_time>>

BufInit ==
  /\ Init
  /\ impl = "nokhwa"

\* frame_times.push(processing_time.as_secs_f64())
BufPush ==
  /\ pushSerial < MaxPushes
  /\ \E time \in PushTimes(pushSerial + 1) :
       LET b == push(Buf, time)
       IN /\ frame_times' = b.times
          /\ index' = b.index
          /\ count' = b.count
          /\ pushed' = Append(pushed, time)
  /\ pushSerial' = pushSerial + 1
  /\ UNCHANGED <<negVars, call, clears, feed, computeCalls, impl, flagVars,
                 callerVars, restOfWorker, pidVars>>

\* frame_times.clear()
BufClear ==
  /\ clears < MaxClears
  /\ LET b == clear(Buf)
     IN /\ frame_times' = b.times
        /\ index' = b.index
        /\ count' = b.count
  /\ pushed' = <<>>
  /\ clears' = clears + 1
  /\ UNCHANGED <<negVars, call, pushSerial, feed, computeCalls, impl, flagVars,
                 callerVars, restOfWorker, pidVars>>

BufNext == BufPush \/ BufClear

BufSpec == BufInit /\ [][BufNext]_vars

\* ------------------------------------------------ PidController on its own
\* A fresh PidController (the variables last_error, integral) on which compute
\* is called repeatedly: with one constant pair of durations whose error is
\* positive, or with any pair at every call.
FeedLen == 1000
MaxCalls == 3
Targets == {16000, 12000000}
Actuals == {0, 15000, 12000000}
ConstFeeds == {[mode |-> "constant", target |-> TargetFrameTime, actual |-> a] : a \in {0, 6000, 15000}}
FreeFeed == [mode |-> "free", target |-> 0, actual |-> 0]

PidInit ==
  /\ StreamInit
  /\ impl = "nokhwa"
  /\ NegIdle
  /\ call = NoCall
  /\ pushed = <<>>
  /\ pushSerial = 0
  /\ clears = 0
  /\ computeCalls = 0
  /\ feed \in ConstFeeds \cup {FreeFeed}

\* pid_controller.compute(target, actual)
PidCompute(target, actual) ==
  /\ LET c == compute(last_error, integral, target, actual)
     IN /\ last_error' = c.last_error
        /\ integral' = c.integral
        /\ sleep_time' = c.sleep
  /\ computeCalls' = computeCalls + 1
  /\ UNCHANGED <<negVars, call, pushed, pushSerial, clears, feed, impl, flagVars,
                 callerVars, loopVars, histVars>>

PidComputeConstant ==
  /\ feed.mode = "constant"
  /\ computeCalls < FeedLen
  /\ PidCompute(feed.target, feed.actual)

PidComputeFree ==
  /\ feed.mode = "free"
  /\ computeCalls < MaxCalls
  /\ \E target \in Targets, actual \in Actuals : PidCompute(target, actual)

PidNext == PidComputeConstant \/ PidComputeFree

PidSpec == PidInit /\ [][PidNext]_vars

\* ==================================================================== claims
Range(q) == {q[i] : i \in 1..Len(q)}

LeftByBreak == pc \in {"exit", "stopped"} /\ exitVia = "break"

\* what holds of the worker once the flag is set: at most one capture begun,
\* at most one callback invoked, and the first abort check leaves the loop
StopsWithinOneIteration ==
  /\ capsAfterSet <= 1
  /\ cbsAfterSet <= 1
  /\ checksAfterSet <= 1
  /\ (checksAfterSet = 1 => LeftByBreak)

\* C1: once abort() has set the flag, the worker begins at most one further
\* capture and at most one further callback, and leaves the loop at the first
\* abort check it reaches.
C1_AbortStopsWithinOneIteration == setBy = "abort" => StopsWithinOneIteration

C1_Witness ==
  /\ setBy = "abort"
  /\ capsAfterSet = 1 /\ cbsAfterSet = 1 /\ checksAfterSet = 1
  /\ pc = "stopped" /\ exitVia = "break"

\* C2: with the flag set, a fairly scheduled worker whose capture calls and
\* callbacks return reaches Stopped; a worker whose capture call never returns
\* stays inside that call, never stops and delivers no further callback.
C2_TerminatesUnlessCaptureBlocks ==
  /\ [](abortFlag => <>(pc = "stopped" \/ hung))
  /\ [](hung => pc = "capture")
  /\ [][hung => (hung' /\ cbLog' = cbLog)]_vars

C2_Witness ==
  /\ abortFlag /\ ~hung
  /\ pc = "stopped" /\ exitVia = "break"
  /\ Len(cbLog) >= 1

\* C3: dropping a caller handle without abort() sets the same flag, and the
\* worker then behaves as after abort(): it stops at its next abort check.
C3_DropCancelsLikeAbort ==
  /\ (dropped => abortFlag)
  /\ (setBy = "drop" => StopsWithinOneIteration)

C3_Witness ==
  /\ dropped /\ ~abortCalled /\ setBy = "drop"
  /\ capsAfterSet = 1 /\ checksAfterSet = 1
  /\ pc = "stopped" /\ exitVia = "break"

\* C4: a capture or decode failure never ends the loop; the worker leaves the
\* loop only in an iteration whose abort check found the flag set.
C4_LeavesOnlyAtAbortCheck ==
  Terminated => (exitVia = "break" /\ checksAfterSet >= 1)

Rank(st) ==
  CASE st = "capture" -> 1
    [] st = "captured" -> 2
    [] st = "update" -> 3
    [] st = "callback" -> 4
    [] st = "returned" -> 5
    [] st = "check" -> 6
    [] st = "sleep" -> 7

\* C5: in every iteration the steps come in the order capture, history/FPS
\* update, callback, abort check, sleep; the flag is read once per iteration,
\* right after the callback returned and before any sleep, and never while a
\* capture is in flight.
C5_StepOrder ==
  /\ \A i \in 1..(Len(steps) - 1) : Rank(steps[i]) < Rank(steps[i + 1])
  /\ (steps # <<>> => steps[1] = "capture")
  /\ \A i \in 1..Len(steps) :
       /\ (steps[i] = "captured" => steps[i - 1] = "capture")
       /\ (steps[i] = "update" => steps[i - 1] = "captured")
       /\ (steps[i] = "callback" =>
             \/ steps[i - 1] = "update"
             \/ (impl = "stream" /\ result = "err" /\ steps[i - 1] = "captured"))
       /\ (steps[i] = "returned" => steps[i - 1] = "callback")
       /\ (steps[i] = "check" => steps[i - 1] = "returned")
       /\ (steps[i] = "sleep" => steps[i - 1] = "check")
  /\ (pc \in {"sleep", "exit"} \/ (pc = "loop" /\ steps # <<>>)
        => "check" \in Range(steps))
  /\ (pc \in {"capture", "update", "callback", "in_callback", "check"}
        => "check" \notin Range(steps))

C5_Witness ==
  /\ pc = "loop"
  /\ steps = <<"capture", "captured", "update", "callback", "returned", "check", "sleep">>

\* C6: every capture that returned is followed by exactly one callback, with
\* an error exactly when the capture or decode failed and a (frame, fps) value
\* exactly when it succeeded; alternating failures give alternating callbacks
\* and the loop keeps running.
C6_CallbackMatchesCapture ==
  /\ Len(capLog) = Len(cbLog) + (IF pc \in {"update", "callback"} THEN 1 ELSE 0)
  /\ \A i \in 1..Len(cbLog) :
       /\ cbLog[i].kind = capLog[i]
       /\ (cbLog[i].kind = "ok" => cbLog[i].fps > 0)
       /\ (cbLog[i].kind = "err" => cbLog[i].fps = 0)

C6_Witness ==
  /\ capLog = <<"err", "ok", "err">>
  /\ Len(cbLog) = 3
  /\ cbLog[1].kind = "err" /\ cbLog[2].kind = "ok" /\ cbLog[3].kind = "err"
  /\ pc = "check"

\* C7: once the worker has left the loop it never captures or calls back
\* again, and no handle operation brings a stopped stream back to running.
C7_OneWay ==
  [][Terminated => (Terminated' /\ capLog' = capLog /\ cbLog' = cbLog /\ steps' = steps)
       /\ (pc = "stopped" => pc' = "stopped")]_vars

C7_Witness ==
  /\ pc = "stopped"
  /\ waitResult # "none" /\ waitSawStopped
  /\ handles = 0

\* C8: wait_for_completion returns true exactly when the worker loop had
\* terminated by the time it returned, and false when it is still running.
C8_WaitReportsTermination ==
  waitResult # "none" => (waitResult = "true" <=> waitSawStopped)

\* C9: every caller-side store to the flag is a Release store, the worker's
\* load is an Acquire load, and the worker that observes the flag sees every
\* write the caller made before requesting cancellation.
C9_ReleaseAcquire ==
  /\ callerOrds \subseteq {"Release"}
  /\ loadOrd \in {"None", "Acquire"}
  /\ (workerSeen # -1 => workerSeen = preAbortWrites)

\* C10: the worker stops exactly once and the camera it owns is released
\* exactly once, whether it leaves after an observed abort, after a dropped
\* handle, or by a panic.
C10_ReleasedExactlyOnce ==
  /\ (~Terminated => stopCount = 0 /\ released = 0)
  /\ (pc \in {"exit", "unwind"} => stopCount = 1 /\ released = 0)
  /\ (pc = "stopped" => stopCount = 1 /\ released = 1)

C10_Witness ==
  /\ pc = "stopped"
  /\ exitVia = "panic"
  /\ released = 1 /\ stopCount = 1
  /\ Len(cbLog) >= 1

\* ------------------------------------------------ negotiation claims
DeclaredOrder == <<"RGBA", "RGB", "YUYV">>
IsNew(x) == x.step = "new"
IsStart(x) == x.step = "open_stream"
NewAttempts == SelectSeq(negLog, IsNew)
\* the attempt that completes a candidate: open+start in create_camera, open
\* alone in create_camera_with_fallback
Completes(x) ==
  /\ x.outcome = "ok"
  /\ x.step = (IF negImpl = "create_camera" THEN "open_stream" ELSE "new")

\* C11: the open attempts are a prefix of RGBA, RGB, YUYV (no candidate is
\* skipped or repeated), nothing is attempted after a candidate has completed,
\* and a returned device is the one of the last attempt: when it is the third
\* candidate, exactly three opens were made.
C11_DeclaredOrder ==
  /\ Len(NewAttempts) <= Len(DeclaredOrder)
  /\ \A k \in 1..Len(NewAttempts) :
       /\ NewAttempts[k].format = DeclaredOrder[k]
       /\ NewAttempts[k].cand = k - 1
  /\ \A k \in 1..Len(negLog) : Completes(negLog[k]) => k = Len(negLog)
  /\ negResult.kind = "ok" =>
       /\ Len(NewAttempts) = negResult.dev + 1
       /\ Completes(negLog[Len(negLog)])
       /\ negLog[Len(negLog)].cand = negResult.dev
       /\ \A k \in 1..(Len(NewAttempts) - 1) :
            \E j \in 1..Len(negLog) :
              negLog[j].cand = k - 1 /\ negLog[j].outcome \in {"err", "panic"}

C11_Witness ==
  /\ negResult.kind = "ok"
  /\ negResult.dev = 2
  /\ Len(NewAttempts) = 3
  /\ NewAttempts[3].format = "YUYV"

\* C12: a panic of the device layer during a candidate's attempt never leaves
\* the negotiator.
C12_FaultNeverPropagates == negResult.kind # "panic"

\* C13: in create_camera a candidate whose stream failed to start is never the
\* returned one and is followed by the next candidate; a returned device has
\* both a successful open and a successful stream start.
C13_StartFailureIsCandidateFailure ==
  negImpl = "create_camera" =>
    /\ \A k \in 1..Len(negLog) :
         (IsStart(negLog[k]) /\ negLog[k].outcome = "err") =>
           /\ ~(negResult.kind = "ok" /\ negResult.dev = negLog[k].cand)
           /\ k < Len(negLog) =>
                /\ IsNew(negLog[k + 1])
                /\ negLog[k + 1].cand = negLog[k].cand + 1
           /\ k = Len(negLog) =>
                /\ cand = negLog[k].cand + 1
                /\ negPc = "for" \/ (negPc = "done" /\ negResult.kind = "err")
                /\ negPc = "done" => cand = Len(DeclaredOrder)
    /\ negResult.kind = "ok" =>
         /\ \E k \in 1..Len(negLog) :
              IsNew(negLog[k]) /\ negLog[k].cand = negResult.dev /\ negLog[k].outcome = "ok"
         /\ \E k \in 1..Len(negLog) :
              IsStart(negLog[k]) /\ negLog[k].cand = negResult.dev /\ negLog[k].outcome = "ok"

C13_Witness ==
  /\ negImpl = "create_camera"
  /\ negResult.kind = "ok"
  /\ negResult.dev = 1
  /\ \E k \in 1..Len(negLog) :
       IsStart(negLog[k]) /\ negLog[k].cand = 0 /\ negLog[k].outcome = "err"

\* C14: a failed negotiation has attempted all three candidates and its error
\* carries the message of the last failed attempt.
C14_CarriesLastError ==
  negResult.kind = "err" =>
    /\ Len(NewAttempts) = Len(DeclaredOrder)
    /\ negLog[Len(negLog)].outcome = "err" => negResult.cause = negLog[Len(negLog)].msg

\* C15: at most one device handle is held; none is held when the open of a
\* candidate begins, nor when negotiation has failed.
C15_NoLeak ==
  /\ Cardinality(held) <= 1
  /\ negPc = "new" => held = {}
  /\ negResult.kind \in {"err", "panic"} => held = {}

C15_Witness ==
  /\ negImpl = "create_camera"
  /\ negPc = "new"
  /\ held = {}
  /\ \E k \in 1..Len(negLog) : IsStart(negLog[k]) /\ negLog[k].outcome = "err"

\* ------------------------------------------------ conversion claims
\* rgba is rgb with a byte 255 inserted after every 3 bytes
IsExpansion(rgba, rgb) ==
  /\ Len(rgb) % 3 = 0
  /\ Len(rgba) = 4 * (Len(rgb) \div 3)
  /\ \A p \in 0..((Len(rgb) \div 3) - 1) :
       /\ rgba[4 * p + 1] = rgb[3 * p + 1]
       /\ rgba[4 * p + 2] = rgb[3 * p + 2]
       /\ rgba[4 * p + 3] = rgb[3 * p + 3]
       /\ rgba[4 * p + 4] = 255

\* C16: on an input of length 3n rgb_to_rgba returns 4n bytes: each pixel's
\* three bytes in the same order, followed by 255.
C16_ExpandsEveryPixel ==
  (call.op = "rgb_to_rgba" /\ Len(call.rgb) % 3 = 0) =>
    /\ ~call.out.panicked
    /\ IsExpansion(call.out.rgba, call.rgb)

C16_Witness ==
  /\ call.op = "rgb_to_rgba"
  /\ Len(call.rgb) = 6
  /\ call.rgb[1] # call.rgb[3]
  /\ Len(call.out.rgba) = 8

\* C17: on an input whose length is not a multiple of 3 rgb_to_rgba fails and
\* returns no buffer.
C17_FailsOnPartialPixel ==
  (call.op = "rgb_to_rgba" /\ Len(call.rgb) % 3 # 0) =>
    /\ call.out.panicked
    /\ call.out.rgba = <<>>

C17_Witness ==
  /\ call.op = "rgb_to_rgba"
  /\ Len(call.rgb) = 4
  /\ call.out.panicked

\* C18: capture_frame decodes MJPEG and NV12 with the 4-channel decoder alone,
\* YUYV with the 3-channel YUYV decoder followed by the alpha expansion, and any
\* other format with the 3-channel decoder first, the 4-channel decoder only
\* when that failed, and an error naming the format only when both failed.
C18_Dispatch ==
  (call.op = "capture_frame" /\ call.frameOk) =>
    LET n == call.w * call.h
        o == call.out
    IN /\ call.format \in {"MJPEG", "NV12"} =>
            /\ o.calls = <<"RgbAFormat">>
            /\ o.kind = (IF call.dec["RgbAFormat"] THEN "ok" ELSE "err")
            /\ o.kind = "ok" => o.data = Pix(4 * n, call.seed)
       /\ call.format = "YUYV" =>
            /\ o.calls = <<"YuyvFormat">>
            /\ o.kind = (IF call.dec["YuyvFormat"] THEN "ok" ELSE "err")
            /\ o.kind = "ok" => IsExpansion(o.data, Pix(3 * n, call.seed))
       /\ call.format \notin {"MJPEG", "NV12", "YUYV"} =>
            /\ o.calls[1] = "RgbFormat"
            /\ call.dec["RgbFormat"] =>
                 /\ Len(o.calls) = 1
                 /\ o.kind = "ok"
                 /\ IsExpansion(o.data, Pix(3 * n, call.seed))
            /\ ~call.dec["RgbFormat"] =>
                 /\ o.calls = <<"RgbFormat", "RgbAFormat">>
                 /\ call.dec["RgbAFormat"] => (o.kind = "ok" /\ o.data = Pix(4 * n, call.seed))
            /\ o.kind = "err" <=> (~call.dec["RgbFormat"] /\ ~call.dec["RgbAFormat"])
            /\ o.kind = "err" => o.format = call.format

C18_Witness ==
  /\ call.op = "capture_frame"
  /\ call.frameOk
  /\ call.format = "GRAY"
  /\ ~call.dec["RgbFormat"]
  /\ call.dec["RgbAFormat"]
  /\ call.out.kind = "ok"
  /\ call.out.calls = <<"RgbFormat", "RgbAFormat">>

BufOps == {"buf_bgr_to_rgb", "buf_mjpeg_to_rgb", "buf_nv12_to_rgb", "buf_yuyv422_to_rgb"}

\* C20: a standalone buffer conversion given an empty source returns an error
\* without calling the decoder.
C20_EmptySourceRejected ==
  (call.op \in BufOps /\ call.srcLen = 0) =>
    /\ call.out.kind = "err"
    /\ ~call.decoderCalled

\* C21: when the decoding routine of a standalone buffer conversion returns an
\* error or panics, the conversion returns an error: no success value, and no
\* panic leaving the call.
C21_DecoderFailureIsReported ==
  (call.op \in BufOps /\ call.decoder # "ok") => call.out.kind = "err"

\* ------------------------------------------------ frame rate and pacing claims
\* C22: in nokhwa.rs an iteration whose capture failed clears the history
\* (count 0, nothing recorded) and leaves the cached frame rate as it was,
\* whether or not the 200 ms interval has elapsed.
C22_FailureClearsHistory ==
  [][(impl = "nokhwa" /\ pc = "update" /\ result = "err" /\ pc' = "callback") =>
       /\ count' = 0
       /\ index' = 0
       /\ frame_times' = frame_times
       /\ cached_fps' = cached_fps]_vars

C22_Witness ==
  /\ impl = "nokhwa"
  /\ pc = "callback"
  /\ result = "err"
  /\ capLog = <<"ok", "err">>
  /\ processing_time >= FpsInterval
  /\ since_fps_update = 0
  /\ count = 0
  /\ cached_fps # DefaultFps

\* the durations a buffer should hold: the last min(n, 60) pushed, oldest first
Retained == SubSeq(pushed, Len(pushed) - Min(Len(pushed), HistCap) + 1, Len(pushed))

\* C23: after n pushes count is min(n, 60) and the buffer holds exactly the
\* last min(n, 60) pushed durations; past 60 the first pushed one is gone.
C23_RingHoldsLastPushes ==
  /\ count = Min(Len(pushed), HistCap)
  /\ {frame_times[j] : j \in 0..(count - 1)} = {Retained[k] : k \in 1..Len(Retained)}
  /\ Len(pushed) > HistCap => \A j \in 0..(HistCap - 1) : frame_times[j] # pushed[1]

C23_Witness ==
  /\ Len(pushed) = HistCap + 1
  /\ count = HistCap
  /\ frame_times[0] = pushed[HistCap + 1]

\* the moving average of q[1..n] given the one of q[1..k] as [k, e]: each
\* further element in turn, oldest first
RECURSIVE EmaSeq(_, _, _)
EmaSeq(q, n, s) ==
  IF s.k >= n THEN s
  ELSE IF s.k + 1 = n
       THEN [k |-> n, e |-> (Alpha10 * q[n] + (10 - Alpha10) * s.e) \div 10]
       ELSE EmaSeq(q, n, EmaSeq(q, (s.k + n) \div 2, s))

\* C24: the moving average is the fold over the retained durations from the
\* oldest to the newest, for every push history.
C24_EmaChronological ==
  ema(Buf) = (IF Len(Retained) = 0 THEN 0
              ELSE EmaSeq(Retained, Len(Retained), [k |-> 1, e |-> Retained[1]]).e)

\* C25: the cached frame rate starts at 60, changes only in the recomputation
\* of an iteration in which 200 ms have elapsed since the last one, and is what
\* the callback is handed with a frame.
C25_RecomputeInterval ==
  /\ cached_fps = DefaultFps
  /\ [][/\ cached_fps' # cached_fps => (pc = "update" /\ since_fps_update >= FpsInterval)
        /\ (pc = "callback" /\ pc' = "in_callback" /\ result = "ok") =>
             /\ Len(cbLog') = Len(cbLog) + 1
             /\ cbLog'[Len(cbLog')].fps = cached_fps]_vars

C25_Witness ==
  /\ Len(cbLog) = 2
  /\ cbLog[1].kind = "ok"
  /\ cbLog[1].fps = DefaultFps
  /\ cbLog[2].kind = "ok"
  /\ cbLog[2].fps # DefaultFps

\* the buffer as the step leaves it
BufNew == [times |-> frame_times', index |-> index', count |-> count']

\* C26: a recomputation sets the cached frame rate to 1/average when the
\* average is positive and keeps it otherwise.
C26_GuardedInverse ==
  [][(pc = "update" /\ pc' = "callback" /\ since_fps_update >= FpsInterval) =>
       LET avg == IF impl = "nokhwa" THEN ema(BufNew) ELSE MeanTime(BufNew)
       IN /\ avg > 0 => cached_fps' = 1000000000 \div avg
          /\ avg <= 0 => cached_fps' = cached_fps
          /\ cached_fps' > 0]_vars

C26_Witness ==
  /\ impl = "stream"
  /\ pc = "callback"
  /\ since_fps_update = 0
  /\ processing_time = 250000
  /\ cached_fps = 4000

\* C27: after every call of compute the integral lies in [-10, 10] (seconds).
C27_IntegralBounded ==
  computeCalls > 0 => (integral >= 0 - IntegralMax /\ integral <= IntegralMax)

C27_Witness ==
  /\ feed.mode = "free"
  /\ computeCalls = 2
  /\ last_error < 0 - IntegralMax
  /\ integral = 0 - IntegralMax

\* C28: a constant positive error fed for 1000 calls to a fresh controller
\* leaves the integral at exactly 10.
C28_ConstantErrorSaturates ==
  (feed.mode = "constant" /\ computeCalls = FeedLen) => integral = IntegralMax

\* the pacing step of nokhwa.rs
PaceStep == impl = "nokhwa" /\ pc = "sleep" /\ pc' = "loop"
Slept == Len(steps') = Len(steps) + 1

\* C29: the nokhwa.rs loop sleeps only after a frame that took less than the
\* target interval, for max(output, 0) of that frame's PID output, never for a
\* negative duration.
C29_SleepsOnlyWhenFast ==
  [][PaceStep =>
       LET error == TargetFrameTime - processing_time
           integ == Max(0 - IntegralMax, Min(integral + error, IntegralMax))
           output == Kp100 * error + Ki100 * integ + Kd100 * (error - last_error)
       IN /\ Slept => processing_time < TargetFrameTime
          /\ Slept => sleep_time' = (IF output > 0 THEN output ELSE 0) \div 100
          /\ ~Slept => sleep_time' = 0
          /\ sleep_time' >= 0]_vars

C29_Witness ==
  /\ impl = "nokhwa"
  /\ pc = "loop"
  /\ Len(capLog) = 2
  /\ processing_time < TargetFrameTime
  /\ steps[Len(steps)] = "sleep"
  /\ sleep_time > 0

\* C30: every iteration of the nokhwa.rs loop updates last_error and integral
\* once, whatever the frame's processing time.
C30_PacingStateUpdatedEveryIteration ==
  [][PaceStep =>
       /\ last_error' = TargetFrameTime - processing_time
       /\ integral' = Max(0 - IntegralMax, Min(integral + last_error', IntegralMax))]_vars

\* C31: with the target of 16 ms and frames faster than the target, as the
\* nokhwa.rs loop calls compute, the sleep never exceeds the target interval.
C31_SleepWithinTarget ==
  feed.mode = "constant" => sleep_time <= TargetFrameTime

\* C32: in the nokhwa.rs loop the controller state changes only in the pacing
\* step of a frame faster than the target, the error it is fed is positive, and
\* the integral never decreases and is in (0, 10] once compute has been called.
C32_IntegralGrowsOnly ==
  [][/\ integral' >= integral
     /\ integral' <= IntegralMax
     /\ <<last_error', integral'>> # <<last_error, integral>> => (PaceStep /\ Slept)
     /\ (PaceStep /\ Slept) =>
          /\ processing_time < TargetFrameTime
          /\ last_error' > 0
          /\ integral' > 0]_vars

C32_Witness ==
  /\ impl = "nokhwa"
  /\ pc = "loop"
  /\ Len(capLog) = 2
  /\ last_error = TargetFrameTime - 10000
  /\ integral = 2 * (TargetFrameTime - 10000)

\* C33: the flag is false at creation, becomes true only through an abort or
\* the drop of a handle, and is never written back to false.
C33_FlagOnlyRises ==
  /\ abortFlag = FALSE
  /\ [][/\ abortFlag => abortFlag'
        /\ (~abortFlag /\ abortFlag') =>
             \/ (~abortCalled /\ abortCalled')
             \/ (~dropped /\ dropped')
             \/ (impl = "stream" /\ pc # "stopped" /\ pc' = "stopped")
        /\ ~abortFlag' => (~abortCalled' /\ ~dropped')]_vars

C33_Witness ==
  /\ impl = "nokhwa"
  /\ abortFlag
  /\ abortCalled
  /\ callerPc = "idle"
  /\ flagOrd = "Relaxed"
  /\ handles = 0

\* C34: in stream.rs the drop of one clone sets the shared flag and stops the
\* stream although other clones are alive and abort() was never called; the
\* worker's own clone sets it only when the worker thread has ended.
C34_AnyCloneDropCancels ==
  impl = "stream" =>
    /\ dropped => (abortFlag /\ setBy # "none")
    /\ (dropped /\ ~abortCalled /\ setBy = "drop") => StopsWithinOneIteration
    /\ setBy = "worker" => pc = "stopped"
    /\ (abortFlag /\ ~abortCalled /\ ~dropped) => pc = "stopped"

C34_Witness ==
  /\ impl = "stream"
  /\ dropped /\ ~abortCalled
  /\ handles >= 1
  /\ setBy = "drop"
  /\ pc = "stopped" /\ exitVia = "break"

\* C35: in stream.rs an iteration whose capture failed leaves the frame-time
\* array, index, count and cached frame rate as they were, does not restart the
\* 200 ms interval, and hands the error to the callback.
C35_FailureLeavesHistory ==
  [][(impl = "stream" /\ (result = "err" \/ result' = "err")) =>
       /\ <<frame_times', index', count'>> = <<frame_times, index, count>>
       /\ cached_fps' = cached_fps
       /\ since_fps_update' >= since_fps_update
       /\ (pc = "capture" /\ result' = "err") => pc' = "callback"
       /\ (pc = "callback" /\ pc' = "in_callback") =>
            cbLog' = Append(cbLog, [kind |-> "err", fps |-> 0])]_vars

C35_Witness ==
  /\ impl = "stream"
  /\ capLog = <<"ok", "err">>
  /\ pc = "check"
  /\ count = 1
  /\ since_fps_update = FpsInterval
  /\ cached_fps # DefaultFps
  /\ cbLog[2].kind = "err"

StartAttempts == SelectSeq(negLog, IsStart)

\* C36: Camera::new starts no stream inside the fallback loop, starts the
\* stream of the first candidate that opened exactly once, and fails without
\* trying another candidate when that start fails.
C36_StartedOnceAfterFallback ==
  /\ negPc \in {"for", "new", "done"} => Len(StartAttempts) = 0
  /\ Len(StartAttempts) <= 1
  /\ negResult.kind = "ok" =>
       /\ Len(NewAttempts) = negResult.dev + 1
       /\ \A k \in 1..(Len(NewAttempts) - 1) : NewAttempts[k].outcome = "err"
  /\ call.op = "Camera::new" =>
       /\ negPc = "constructed"
       /\ negResult.kind = "ok" =>
            /\ Len(StartAttempts) = 1
            /\ negLog[Len(negLog)] = StartAttempts[1]
            /\ StartAttempts[1].cand = negResult.dev
            /\ StartAttempts[1].outcome = "ok" =>
                 (call.out.kind = "ok" /\ call.out.dev = negResult.dev /\ held = {negResult.dev})
            /\ StartAttempts[1].outcome = "err" =>
                 (call.out.kind = "err" /\ call.out.cause = StartAttempts[1].msg /\ held = {})
       /\ negResult.kind = "err" =>
            (call.out.kind = "err" /\ Len(StartAttempts) = 0)

C36_Witness ==
  /\ call.op = "Camera::new"
  /\ negResult.kind = "ok"
  /\ negResult.dev = 0
  /\ Len(NewAttempts) = 1
  /\ StartAttempts[1].outcome = "err"
  /\ call.out.kind = "err"

====
